---- MODULE Spec2Model ----
(***************************************************************************)
(* EMDataset.__getitem__ of training.py: one sample is built from one      *)
(* event in the steps                                                      *)
(*   hits (l.77-80) -> small (l.83-85) -> argmax (l.86-88) -> crop (l.93)  *)
(*   -> noise (l.110-111) -> err (l.114) -> bin (l.117-128) -> done (l.130)*)
(* Arrays are functions on 0..n-1 of functions on 0..m-1 (row-major, as    *)
(* numpy indexes them); the 101x101 canvas, zero nearly everywhere, is the *)
(* function from its nonzero pixels <<r, c>> to their values and is read   *)
(* with At.  Physical quantities (PIXEL_SIZE, xinc, yinc, the  *)
(* error range) are exact integers in a common unit, so the float          *)
(* expressions of lines 114-124 are evaluated as exact rationals.          *)
(***************************************************************************)
EXTENDS Integers, Sequences, FiniteSets, TLC

VARIABLES
    EVT_SIZE,             \* emnet.EVT_SIZE
    ERR_SIZE,             \* emnet.ERR_SIZE
    PIXEL_SIZE,           \* emnet.PIXEL_SIZE
    PIXEL_ERR_RANGE_MIN,  \* emnet.PIXEL_ERR_RANGE_MIN
    PIXEL_ERR_RANGE_MAX,  \* emnet.PIXEL_ERR_RANGE_MAX
    add_noise,            \* self.add_noise
    add_shift,            \* self.add_shift
    noise_mean,           \* self.noise_mean
    df_evt,               \* the rows of the event: [row, col, counts, xinc, yinc]
    pc,                   \* position in __getitem__
    k,                    \* number of rows the loop of l.79 has consumed
    evt_arr,              \* the 101x101 array allocated on l.77
    evt_small,            \* the 11x11 array argmax is taken of
    draw_small,           \* the np.random.normal draw of l.85 (<<>> if none)
    y_shift,
    x_shift,
    patch,                \* the value the name evt_arr has from l.93 on
    draw_patch,           \* the np.random.normal draw of l.111 (<<>> if none)
    err,                  \* <<err[0], err[1]>>
    xbin,
    ybin,
    err_ind,
    exc                   \* "none", or the exception that ended the call

\* GaussianFullRankIncidencePointPredictor of incidence_predictor.py: one
\* construction followed by one call of forward.  Real numbers are exact
\* integers in the unit 1 / One (see the arithmetic section below).
VARIABLES
    mean_parameterization, \* self.mean_parameterization
    diagonal_covariance,   \* self.diagonal_covariance
    eps_arg,               \* the constructor argument eps
    self_eps,              \* self.eps
    out_dim,               \* out_features of the last Linear of self.predictor
    x_shape,               \* shape of the argument x of forward
    head_pc,               \* position in __init__ / forward
    head_out,              \* x after self.predictor (l.39)
    patch_shape,           \* l.36
    mean_vector,
    cholesky_diagonal,
    cholesky_offdiag,
    cholesky,
    distribution,          \* the MultivariateNormal returned on l.71
    head_exc               \* "none", or the exception that ended the call

\* sparse_utils.py: one sparse tensor and the results of the calls made on it.
VARIABLES
    sparse_tensor,         \* the coalesced torch sparse tensor the calls are given
    sparse_pc,             \* which call has been made
    spconv_tensor,         \* torch_sparse_to_spconv(sparse_tensor)
    torch_tensor,          \* spconv_to_torch_sparse(spconv_tensor)
    index_tensor,          \* the index tuple given to gather_from_sparse_tensor
    gathered,              \* what gather_from_sparse_tensor returned
    batch_offsets,         \* what batch_offsets_from_sparse_tensor_indices returned
    sparse_exc             \* "none", or the exception that ended the call

\* sparse_utils.unpack_sparse_tensors: the batch dict over two calls.
VARIABLES
    batch_arg,             \* the dict as the first call was given it
    batch,                 \* the dict, a function from its keys to their values
    unpack_pc,             \* position in unpack_sparse_tensors
    prefixes,              \* the prefixes the loop of l.85 has still to convert
    calls,                 \* number of calls that have returned
    first_result,          \* the batch as the first call left it
    unpack_exc             \* "none", or the exception that ended the call

\* blocks.py: one construction of a sparse block.
VARIABLES
    block_class,           \* the class constructed
    conv_type,             \* the argument conv_type, a sequence of characters
    optimize,              \* whether Python runs with -O (assert statements removed)
    block_pc,              \* position in __init__
    conv_layer,            \* the convolution class selected
    block_exc              \* "none", or the exception __init__ raised

\* blocks.py: one construction of a SparseResnetV2Stage.
VARIABLES
    stage_conv_layer,      \* the argument conv_layer, a sequence of characters
    in_chs,                \* the argument in_chs
    out_chs,               \* the argument out_chs
    stride_arg,            \* the argument stride as the caller passed it
    depth,                 \* the argument depth
    block_dpr,             \* the argument block_dpr: None, or a list of rates
    stride,                \* the local stride, rebound by l.225
    prev_chs,              \* the local prev_chs
    block_index,           \* the loop variable of l.223
    blocks,                \* self.blocks, the blocks added so far
    stage_pc,              \* position in __init__
    stage_exc              \* "none", or the exception __init__ raised

dataset_vars == <<EVT_SIZE, ERR_SIZE, PIXEL_SIZE, PIXEL_ERR_RANGE_MIN, PIXEL_ERR_RANGE_MAX,
          add_noise, add_shift, noise_mean, df_evt, pc, k, evt_arr, evt_small,
          draw_small, y_shift, x_shift, patch, draw_patch, err, xbin, ybin,
          err_ind, exc>>

head_vars == <<mean_parameterization, diagonal_covariance, eps_arg, self_eps, out_dim,
               x_shape, head_pc, head_out, patch_shape, mean_vector,
               cholesky_diagonal, cholesky_offdiag, cholesky, distribution, head_exc>>

sparse_vars == <<sparse_tensor, sparse_pc, spconv_tensor, torch_tensor, index_tensor,
                 gathered, batch_offsets, sparse_exc>>

unpack_vars == <<batch_arg, batch, unpack_pc, prefixes, calls, first_result, unpack_exc>>

block_vars == <<block_class, conv_type, optimize, block_pc, conv_layer, block_exc>>

stage_vars == <<stage_conv_layer, in_chs, out_chs, stride_arg, depth, block_dpr, stride,
                prev_chs, block_index, blocks, stage_pc, stage_exc>>

vars == <<dataset_vars, head_vars, sparse_vars, unpack_vars, block_vars, stage_vars>>

\* The variables each component leaves alone.
not_dataset_vars == <<head_vars, sparse_vars, unpack_vars, block_vars, stage_vars>>
not_head_vars == <<dataset_vars, sparse_vars, unpack_vars, block_vars, stage_vars>>
not_sparse_vars == <<dataset_vars, head_vars, unpack_vars, block_vars, stage_vars>>
not_unpack_vars == <<dataset_vars, head_vars, sparse_vars, block_vars, stage_vars>>
not_block_vars == <<dataset_vars, head_vars, sparse_vars, unpack_vars, stage_vars>>
not_stage_vars == <<dataset_vars, head_vars, sparse_vars, unpack_vars, block_vars>>

config == <<EVT_SIZE, ERR_SIZE, PIXEL_SIZE, PIXEL_ERR_RANGE_MIN, PIXEL_ERR_RANGE_MAX,
            add_noise, add_shift, noise_mean, df_evt>>

----------------------------------------------------------------------------
\* Program constants.

CanvasSize == 101
CanvasCentre == 50
SearchSize == 11
\* The shift measured from the centre of the canvas instead of the window's.
ShiftOriginOfCanvas == CanvasCentre

ShiftOrigin == 5

\* Bounds of the model.

MaxHits == 2
MaxCount == 1
MaxNoise == 1
MaxShift == 1
MaxPixelSize == 2

----------------------------------------------------------------------------
\* Python and numpy primitives.

Abs(n) == IF n < 0 THEN -n ELSE n

\* int(n/d): float division followed by truncation toward zero.
PyIntDiv(n, d) ==
    LET q == Abs(n) \div Abs(d)
    IN  IF (n < 0) = (d < 0) THEN q ELSE -q

PyMax(a, b) == IF a >= b THEN a ELSE b

PyMin(a, b) == IF a <= b THEN a ELSE b

\* A slice bound b on an axis of length n: negative bounds count from the end,
\* and the result is clipped to 0..n.
SliceBound(b, n) ==
    IF b < 0 THEN PyMax(b + n, 0) ELSE PyMin(b, n)

\* Element (r, c) of the canvas a.
At(a, r, c) == IF <<r, c>> \in DOMAIN a THEN a[<<r, c>>] ELSE 0

\* The canvas a after a[r, c] = v.
Store(a, r, c, v) ==
    LET dom == IF v = 0 THEN DOMAIN a \ {<<r, c>>} ELSE DOMAIN a \cup {<<r, c>>}
    IN  [p \in dom |-> IF p = <<r, c>> THEN v ELSE a[p]]

\* a[r0:r1, c0:c1] of the canvas a of nr rows and nc columns, as an array.
Slice2D(a, nr, nc, r0, r1, c0, c1) ==
    LET rs == SliceBound(r0, nr)
        re == SliceBound(r1, nr)
        cs == SliceBound(c0, nc)
        ce == SliceBound(c1, nc)
    IN  [i \in 0..(re - rs - 1) |-> [j \in 0..(ce - cs - 1) |-> At(a, rs + i, cs + j)]]

NRows(a) == Cardinality(DOMAIN a)

NCols(a) == IF NRows(a) = 0 THEN 0 ELSE Cardinality(DOMAIN a[0])

\* np.zeros([101,101]): the canvas without a nonzero pixel.
Zeros == [p \in {} |-> 0]

\* The flat (row-major) index of a[i][j].
Flat(a, i, j) == i * NCols(a) + j

\* The element at flat index kk.
Ravel(a, kk) == a[kk \div NCols(a)][kk % NCols(a)]

\* RowScan keeping the last of equal maxima.
RECURSIVE RowScanLast(_, _, _, _)
RowScanLast(a, i, j, best) ==
    IF j >= NCols(a) THEN best
    ELSE IF a[i][j] >= Ravel(a, best)
         THEN RowScanLast(a, i, j + 1, Flat(a, i, j))
         ELSE RowScanLast(a, i, j + 1, best)

\* The scan of np.argmax over row i from column j on: best is the flat index
\* of the greatest element so far, replaced only by a greater one.
RECURSIVE RowScan(_, _, _, _)
RowScan(a, i, j, best) ==
    IF j >= NCols(a) THEN best
    ELSE IF a[i][j] > Ravel(a, best)
         THEN RowScan(a, i, j + 1, Flat(a, i, j))
         ELSE RowScan(a, i, j + 1, best)

RECURSIVE ArgMaxScan(_, _, _)
ArgMaxScan(a, i, best) ==
    IF i >= NRows(a) THEN best
    ELSE ArgMaxScan(a, i + 1, RowScan(a, i, 0, best))

\* np.argmax(a): the flat index of the maximum, the first one on ties.
ArgMax(a) == ArgMaxScan(a, 0, 0)

\* np.unravel_index(flat, a.shape)
UnravelIndex(flat, a) == <<flat \div NCols(a), flat % NCols(a)>>

\* gaussnoise(data): a new array, data plus the draw, element by element.
gaussnoise(data, draw) ==
    [i \in DOMAIN data |-> [j \in DOMAIN data[i] |-> data[i][j] + draw[i][j]]]

\* gaussnoise adding in place (data += draw): the sum is written through the
\* view into the canvas, whose window starts at (r0, c0).
AfterGaussnoiseInPlace(base, draw, r0, c0) ==
    LET region == {<<r0 + i, c0 + j>> : i \in DOMAIN draw, j \in DOMAIN draw[0]}
        val(p) == At(base, p[1], p[2])
                    + (IF p \in region THEN draw[p[1] - r0][p[2] - c0] ELSE 0)
    IN  [p \in {q \in DOMAIN base \cup region : val(q) # 0} |-> val(p)]

\* What the array passed to gaussnoise holds afterwards: gaussnoise builds
\* its result with `data + ...` and never writes to data, and so not to the
\* array data is a view of.
AfterGaussnoise(base, draw, r0, c0) == base

----------------------------------------------------------------------------
\* The inputs: the events of the dataframe and the configuration.

\* Pixels the hits of an event fall on: the centre, the last pixel of the
\* search window, a pixel off its diagonal, and one outside the window.
HitPixels == {<<50, 50>>, <<55, 55>>, <<48, 53>>, <<40, 40>>}

\* The incidence points (xinc, yinc) of the events, in the unit of PIXEL_SIZE.
IncPoints == {<<2, -1>>, <<100, 0>>, <<-100, -6>>, <<0, 3>>}

\* The values of emnet.ERR_SIZE and of the error range (min, max).
ErrSizes == {1, 3, 10}

ErrRanges == {<<-5, 5>>, <<-2, 8>>}

\* The values of self.noise_mean.
NoiseMeans == {0, 1}

\* The rows (row, col, counts) of the events; a hit of count 5 on the centre
\* pixel is the event of the specification's extraction scenario.
HitRows == {<<p[1], p[2], c>> : p \in HitPixels, c \in 0..MaxCount} \cup {<<50, 50, 5>>}

HitLists == UNION {[1..n -> HitRows] : n \in 0..MaxHits}

\* The rows of one event: every row carries the event's incidence point.
EventOf(hits, inc) ==
    [n \in 1..Len(hits) |->
        [row |-> hits[n][1], col |-> hits[n][2], counts |-> hits[n][3],
         xinc |-> inc[1], yinc |-> inc[2]]]

\* The draws of np.random.normal on an n x m array: the mean everywhere and a
\* deviation a on one pixel p.
Draw(n, m, p, a) ==
    [i \in 0..(n - 1) |-> [j \in 0..(m - 1) |->
        noise_mean + (IF <<i, j>> = p THEN a ELSE 0)]]

\* The pixels that deviate: in the search window its centre and a pixel
\* before it in row-major order, in the patch its first pixel.
SmallNoisePixels == {<<5, 5>>, <<2, 7>>}

PatchNoisePixels == {<<0, 0>>}

Draws(n, m, pixels) ==
    {Draw(n, m, p, a) : p \in pixels, a \in (-MaxNoise)..MaxNoise}

\* A component no call is made on.
HeadIdle ==
    /\ mean_parameterization = "none"
    /\ diagonal_covariance = FALSE
    /\ eps_arg = 0
    /\ self_eps = 0
    /\ out_dim = 0
    /\ x_shape = <<>>
    /\ head_pc = "idle"
    /\ head_out = <<>>
    /\ patch_shape = <<>>
    /\ mean_vector = <<>>
    /\ cholesky_diagonal = <<>>
    /\ cholesky_offdiag = <<>>
    /\ cholesky = <<>>
    /\ distribution = <<>>
    /\ head_exc = "none"

SparseIdle ==
    /\ sparse_tensor = <<>>
    /\ sparse_pc = "idle"
    /\ spconv_tensor = <<>>
    /\ torch_tensor = <<>>
    /\ index_tensor = <<>>
    /\ gathered = <<>>
    /\ batch_offsets = <<>>
    /\ sparse_exc = "none"

UnpackIdle ==
    /\ batch_arg = <<>>
    /\ batch = <<>>
    /\ unpack_pc = "idle"
    /\ prefixes = {}
    /\ calls = 0
    /\ first_result = <<>>
    /\ unpack_exc = "none"

BlockIdle ==
    /\ block_class = "none"
    /\ conv_type = <<>>
    /\ optimize = FALSE
    /\ block_pc = "idle"
    /\ conv_layer = "none"
    /\ block_exc = "none"

StageIdle ==
    /\ stage_conv_layer = <<>>
    /\ in_chs = 0
    /\ out_chs = 0
    /\ stride_arg = 0
    /\ depth = 0
    /\ block_dpr = [given |-> FALSE, list |-> <<>>]
    /\ stride = 0
    /\ prev_chs = 0
    /\ block_index = 0
    /\ blocks = <<>>
    /\ stage_pc = "idle"
    /\ stage_exc = "none"

NotDatasetIdle == HeadIdle /\ SparseIdle /\ UnpackIdle /\ BlockIdle /\ StageIdle

----------------------------------------------------------------------------
\* The state on entry to __getitem__, for one event and one configuration.

InitWith(hits, inc, size, esize, psize, rmin, rmax, noise, shift, mean) ==
    /\ EVT_SIZE = size
    /\ ERR_SIZE = esize
    /\ PIXEL_SIZE = psize
    /\ PIXEL_ERR_RANGE_MIN = rmin
    /\ PIXEL_ERR_RANGE_MAX = rmax
    /\ add_noise = noise
    /\ add_shift = shift
    /\ noise_mean = mean
    /\ df_evt = EventOf(hits, inc)
    /\ pc = "hits"
    /\ k = 0
    /\ evt_arr = Zeros
    /\ evt_small = <<>>
    /\ draw_small = <<>>
    /\ y_shift = 0
    /\ x_shift = 0
    /\ patch = <<>>
    /\ draw_patch = <<>>
    /\ err = <<0, 0>>
    /\ xbin = 0
    /\ ybin = 0
    /\ err_ind = 0
    /\ exc = "none"
    /\ NotDatasetIdle

----------------------------------------------------------------------------
\* The steps of __getitem__.

\* AddHit assigning the count instead of adding it.
AddHitOverwrite ==
    /\ pc = "hits"
    /\ k < Len(df_evt)
    /\ LET h == df_evt[k + 1]
       IN  evt_arr' = Store(evt_arr, h.row, h.col, h.counts)
    /\ k' = k + 1
    /\ UNCHANGED not_dataset_vars
    /\ UNCHANGED <<config, pc, evt_small, draw_small, y_shift, x_shift, patch,
                   draw_patch, err, xbin, ybin, err_ind, exc>>

\* l.79-80: one iteration of the loop over the rows of the event.
AddHit ==
    /\ pc = "hits"
    /\ k < Len(df_evt)
    /\ LET h == df_evt[k + 1]
       IN  evt_arr' = Store(evt_arr, h.row, h.col, At(evt_arr, h.row, h.col) + h.counts)
    /\ k' = k + 1
    /\ UNCHANGED not_dataset_vars
    /\ UNCHANGED <<config, pc, evt_small, draw_small, y_shift, x_shift, patch,
                   draw_patch, err, xbin, ybin, err_ind, exc>>

\* The half width int((n-1)/2) of a window of n pixels.
HalfWidth(n) == PyIntDiv(n - 1, 2)

\* l.83: the 11x11 window around the canvas centre.
SearchWindow(a) ==
    Slice2D(a, CanvasSize, CanvasSize,
            CanvasCentre - HalfWidth(SearchSize), CanvasCentre + HalfWidth(SearchSize) + 1,
            CanvasCentre - HalfWidth(SearchSize), CanvasCentre + HalfWidth(SearchSize) + 1)

\* l.83-85 with add_noise false.
SmallPlain ==
    /\ pc = "hits"
    /\ k = Len(df_evt)
    /\ ~add_noise
    /\ evt_small' = SearchWindow(evt_arr)
    /\ pc' = "argmax"
    /\ UNCHANGED not_dataset_vars
    /\ UNCHANGED <<config, k, evt_arr, draw_small, y_shift, x_shift, patch,
                   draw_patch, err, xbin, ybin, err_ind, exc>>

\* l.83-85 with add_noise true: the window plus a fresh draw.
SmallNoisy ==
    /\ pc = "hits"
    /\ k = Len(df_evt)
    /\ add_noise
    /\ \E d \in Draws(SearchSize, SearchSize, SmallNoisePixels) :
          /\ draw_small' = d
          /\ evt_small' = gaussnoise(SearchWindow(evt_arr), d)
          /\ evt_arr' = AfterGaussnoise(evt_arr, d,
                            CanvasCentre - HalfWidth(SearchSize),
                            CanvasCentre - HalfWidth(SearchSize))
    /\ pc' = "argmax"
    /\ UNCHANGED not_dataset_vars
    /\ UNCHANGED <<config, k, y_shift, x_shift, patch,
                   draw_patch, err, xbin, ybin, err_ind, exc>>

\* l.86-88
PeakShift ==
    /\ pc = "argmax"
    /\ LET yx_shift == UnravelIndex(ArgMax(evt_small), evt_small)
       IN  /\ y_shift' = yx_shift[1] - ShiftOrigin
           /\ x_shift' = yx_shift[2] - ShiftOrigin
    /\ pc' = "crop"
    /\ UNCHANGED not_dataset_vars
    /\ UNCHANGED <<config, k, evt_arr, evt_small, draw_small, patch,
                   draw_patch, err, xbin, ybin, err_ind, exc>>

\* PatchWindow with the row and the column shift exchanged.
PatchWindowTransposed(a, ys, xs, size) ==
    Slice2D(a, CanvasSize, CanvasSize,
            CanvasCentre + xs - HalfWidth(size), CanvasCentre + xs + HalfWidth(size) + 1,
            CanvasCentre + ys - HalfWidth(size), CanvasCentre + ys + HalfWidth(size) + 1)

\* l.93: the window of the canvas around the peak.
PatchWindow(a, ys, xs, size) ==
    Slice2D(a, CanvasSize, CanvasSize,
            CanvasCentre + ys - HalfWidth(size), CanvasCentre + ys + HalfWidth(size) + 1,
            CanvasCentre + xs - HalfWidth(size), CanvasCentre + xs + HalfWidth(size) + 1)

Crop ==
    /\ pc = "crop"
    /\ patch' = PatchWindow(evt_arr, y_shift, x_shift, EVT_SIZE)
    /\ pc' = "noise"
    /\ UNCHANGED not_dataset_vars
    /\ UNCHANGED <<config, k, evt_arr, evt_small, draw_small, y_shift, x_shift,
                   draw_patch, err, xbin, ybin, err_ind, exc>>

\* l.110-111 with add_noise false.
PatchPlain ==
    /\ pc = "noise"
    /\ ~add_noise
    /\ pc' = "err"
    /\ UNCHANGED not_dataset_vars
    /\ UNCHANGED <<config, k, evt_arr, evt_small, draw_small, y_shift, x_shift,
                   patch, draw_patch, err, xbin, ybin, err_ind, exc>>

\* l.110-111 with add_noise true: the patch plus a fresh draw.
PatchNoisy ==
    /\ pc = "noise"
    /\ add_noise
    /\ \E d \in Draws(NRows(patch), NCols(patch), PatchNoisePixels) :
          /\ draw_patch' = d
          /\ patch' = gaussnoise(patch, d)
          /\ evt_arr' = AfterGaussnoise(evt_arr, d,
                            CanvasCentre + y_shift - HalfWidth(EVT_SIZE),
                            CanvasCentre + x_shift - HalfWidth(EVT_SIZE))
    /\ pc' = "err"
    /\ UNCHANGED not_dataset_vars
    /\ UNCHANGED <<config, k, evt_small, draw_small, y_shift, x_shift,
                   err, xbin, ybin, err_ind, exc>>

\* ErrOf with the row shift in x and the column shift in y.
ErrOfSwapped(xs, ys, xinc, yinc) == <<PIXEL_SIZE * ys + xinc, PIXEL_SIZE * xs + yinc>>

\* l.114: err = [PIXEL_SIZE*x_shift + xinc[0], PIXEL_SIZE*y_shift + yinc[0]]
ErrOf(xs, ys, xinc, yinc) == <<PIXEL_SIZE * xs + xinc, PIXEL_SIZE * ys + yinc>>

\* l.114; values[0] of an event without rows raises IndexError.
Err ==
    /\ pc = "err"
    /\ IF Len(df_evt) = 0
       THEN /\ exc' = "IndexError"
            /\ pc' = "raised"
            /\ UNCHANGED err
       ELSE /\ err' = ErrOf(x_shift, y_shift, df_evt[1].xinc, df_evt[1].yinc)
            /\ pc' = "bin"
            /\ UNCHANGED exc
    /\ UNCHANGED not_dataset_vars
    /\ UNCHANGED <<config, k, evt_arr, evt_small, draw_small, y_shift, x_shift,
                   patch, draw_patch, xbin, ybin, err_ind>>

\* l.117-118
SHIFTED_ERR_RANGE_MIN == PIXEL_ERR_RANGE_MIN - add_shift * PIXEL_SIZE

SHIFTED_ERR_RANGE_MAX == PIXEL_ERR_RANGE_MAX + add_shift * PIXEL_SIZE

\* RawBin over the range of emnet, not widened by add_shift.
RawBinUnshifted(v) ==
    PyIntDiv(ERR_SIZE * (v - PIXEL_ERR_RANGE_MIN),
             PIXEL_ERR_RANGE_MAX - PIXEL_ERR_RANGE_MIN)

\* l.120 / l.124: int(ERR_SIZE*(v - MIN)/(MAX - MIN))
RawBin(v) ==
    PyIntDiv(ERR_SIZE * (v - SHIFTED_ERR_RANGE_MIN),
             SHIFTED_ERR_RANGE_MAX - SHIFTED_ERR_RANGE_MIN)

\* ClampBin without the lower clamp of l.121 / l.125.
ClampBinNoFloor(b) == PyMin(b, ERR_SIZE - 1)

\* l.121-122 / l.125-126
ClampBin(b) == PyMin(PyMax(b, 0), ERR_SIZE - 1)

\* FlatIndex with x as the row axis.
FlatIndexColumnMajor(yb, xb) == (xb * ERR_SIZE) + yb

\* l.128
FlatIndex(yb, xb) == (yb * ERR_SIZE) + xb

\* l.117-128; a zero-width range raises ZeroDivisionError on l.120.
Bin ==
    /\ pc = "bin"
    /\ IF SHIFTED_ERR_RANGE_MAX - SHIFTED_ERR_RANGE_MIN = 0
       THEN /\ exc' = "ZeroDivisionError"
            /\ pc' = "raised"
            /\ UNCHANGED <<xbin, ybin, err_ind>>
       ELSE /\ xbin' = ClampBin(RawBin(err[1]))
            /\ ybin' = ClampBin(RawBin(err[2]))
            /\ err_ind' = FlatIndex(ClampBin(RawBin(err[2])), ClampBin(RawBin(err[1])))
            /\ pc' = "done"
            /\ UNCHANGED exc
    /\ UNCHANGED not_dataset_vars
    /\ UNCHANGED <<config, k, evt_arr, evt_small, draw_small, y_shift, x_shift,
                   patch, draw_patch, err>>

Next ==
    \/ AddHit
    \/ SmallPlain
    \/ SmallNoisy
    \/ PeakShift
    \/ Crop
    \/ PatchPlain
    \/ PatchNoisy
    \/ Err
    \/ Bin

\* Events of up to MaxHits hits, without noise, for an odd and an even patch size.
InitHits ==
    \E hits \in HitLists, size \in {5, 10} :
        InitWith(hits, <<2, -1>>, size, 10, 1, -5, 5, FALSE, 0, 0)

\* Events of at most one hit and every patch size, without noise.
InitSizes ==
    \E hits \in {h \in HitLists : Len(h) <= 1}, size \in 1..SearchSize :
        InitWith(hits, <<2, -1>>, size, 10, 1, -5, 5, FALSE, 0, 0)

\* Events of at most one hit and every patch size, with noise.
InitNoise ==
    \E hits \in {h \in HitLists : Len(h) <= 1}, size \in 1..SearchSize,
       mean \in NoiseMeans :
        InitWith(hits, <<2, -1>>, size, 10, 1, -5, 5, TRUE, 0, mean)

\* Events of one hit, with every label configuration.
InitLabel ==
    \E p \in HitPixels, inc \in IncPoints, esize \in ErrSizes,
       psize \in 1..MaxPixelSize, range \in ErrRanges, shift \in 0..MaxShift :
        InitWith(<< <<p[1], p[2], 1>> >>, inc, 5, esize, psize,
                 range[1], range[2], FALSE, shift, 0)

Init == InitHits \/ InitSizes \/ InitNoise \/ InitLabel

Spec == Init /\ [][Next]_vars

----------------------------------------------------------------------------
\* Positions of __getitem__ at which a value has been computed.

Cropped == pc \in {"noise", "err", "bin", "done", "raised"}

Peaked == pc = "crop" \/ Cropped

Returned == pc = "done"

----------------------------------------------------------------------------
\* The label (l.116-128).

\* C1: every sample's bins lie in 0..ERR_SIZE-1 on both axes; an error above
\* the (widened) range maximum gives bin ERR_SIZE-1, one below the range
\* minimum gives bin 0, and the label construction raises no error.
C1_BinsSaturate ==
    /\ exc # "ZeroDivisionError"
    /\ pc = "bin" => SHIFTED_ERR_RANGE_MAX - SHIFTED_ERR_RANGE_MIN > 0
    /\ Returned =>
          /\ xbin \in 0..(ERR_SIZE - 1)
          /\ ybin \in 0..(ERR_SIZE - 1)
          /\ err[1] > SHIFTED_ERR_RANGE_MAX => xbin = ERR_SIZE - 1
          /\ err[2] > SHIFTED_ERR_RANGE_MAX => ybin = ERR_SIZE - 1
          /\ err[1] < SHIFTED_ERR_RANGE_MIN => xbin = 0
          /\ err[2] < SHIFTED_ERR_RANGE_MIN => ybin = 0

\* A sample with add_shift > 0 whose x error is above and whose y error is
\* below the widened range.
C1_Witness ==
    /\ Returned
    /\ add_shift > 0
    /\ ERR_SIZE > 1
    /\ err[1] > SHIFTED_ERR_RANGE_MAX
    /\ err[2] < SHIFTED_ERR_RANGE_MIN

\* clamp(floor(ERR_SIZE*(v - rmin)/(rmax - rmin)), 0, ERR_SIZE-1) over the range
\* widened by add_shift*PIXEL_SIZE on both ends.
FloorBin(v) ==
    LET rmin == PIXEL_ERR_RANGE_MIN - add_shift * PIXEL_SIZE
        rmax == PIXEL_ERR_RANGE_MAX + add_shift * PIXEL_SIZE
        f == (ERR_SIZE * (v - rmin)) \div (rmax - rmin)
    IN  IF f < 0 THEN 0 ELSE IF f > ERR_SIZE - 1 THEN ERR_SIZE - 1 ELSE f

\* C2: each bin equals clamp(floor(ERR_SIZE*(v - rmin)/(rmax - rmin)), 0,
\* ERR_SIZE-1) over the widened range, also where int() rounds toward zero;
\* error (2, -1) with range (-5, 5), ERR_SIZE 10, add_shift 0 gives bins 7 and 4.
C2_BinIsClampedFloor ==
    Returned =>
        /\ xbin = FloorBin(err[1])
        /\ ybin = FloorBin(err[2])
        /\ ( /\ err = <<2, -1>>
             /\ PIXEL_ERR_RANGE_MIN = -5
             /\ PIXEL_ERR_RANGE_MAX = 5
             /\ ERR_SIZE = 10
             /\ add_shift = 0 ) => (xbin = 7 /\ ybin = 4)

\* A sample with add_shift > 0 whose x error is below the range by a fraction
\* of a bin, so that int() and floor differ before the clamp.
C2_Witness ==
    /\ Returned
    /\ add_shift > 0
    /\ err[1] < SHIFTED_ERR_RANGE_MIN
    /\ (ERR_SIZE * (err[1] - SHIFTED_ERR_RANGE_MIN))
          % (SHIFTED_ERR_RANGE_MAX - SHIFTED_ERR_RANGE_MIN) # 0
    /\ RawBin(err[1]) = 0

\* C3: err_ind = ybin*ERR_SIZE + xbin lies in 0..ERR_SIZE*ERR_SIZE-1, and
\* (xbin, ybin) = (err_ind mod ERR_SIZE, err_ind div ERR_SIZE).
C3_FlatIndexRowMajor ==
    Returned =>
        /\ err_ind = ybin * ERR_SIZE + xbin
        /\ err_ind \in 0..(ERR_SIZE * ERR_SIZE - 1)
        /\ xbin = err_ind % ERR_SIZE
        /\ ybin = err_ind \div ERR_SIZE

\* The sample of the specification's scenario: bins (7, 4), index 47.
C3_Witness ==
    /\ Returned
    /\ ERR_SIZE = 10
    /\ xbin = 7
    /\ ybin = 4
    /\ err_ind = 47

----------------------------------------------------------------------------
\* The patch (l.77-111).

\* C4: for every EVT_SIZE in 1..11, odd or even, the patch has EVT_SIZE rows
\* and EVT_SIZE columns.
C4_PatchIsEvtSizeSquare ==
    Cropped => (NRows(patch) = EVT_SIZE /\ NCols(patch) = EVT_SIZE)

\* The pixels of the 11x11 array.
SmallIndex == 0..(SearchSize - 1)

\* C5: (y_shift, x_shift) is the (row, column) of the maximum of the 11x11
\* window centred on canvas pixel (50, 50), minus (5, 5); among equal maxima
\* the first in row-major order is taken; both shifts lie in -5..5.
C5_ShiftIsFirstMaximum ==
    Peaked =>
        LET r == y_shift + 5
            c == x_shift + 5
        IN  /\ y_shift \in (-5)..5
            /\ x_shift \in (-5)..5
            /\ \A i \in SmallIndex, j \in SmallIndex :
                  /\ evt_small[i][j] =
                        At(evt_arr, 50 - 5 + i, 50 - 5 + j)
                          + (IF add_noise THEN draw_small[i][j] ELSE 0)
                  /\ evt_small[i][j] <= evt_small[r][c]
                  /\ (i < r \/ (i = r /\ j < c)) => evt_small[i][j] < evt_small[r][c]

\* Two equal maxima, at (48, 53) and at the centre: the first one is taken.
C5_Witness ==
    /\ Peaked
    /\ y_shift = -2
    /\ x_shift = 3
    /\ evt_small[3][8] = evt_small[5][5]

\* The maximum of the 11x11 array.
SmallMax == evt_small[y_shift + 5][x_shift + 5]

\* C6: without noise and with an odd patch size, the centre pixel of the
\* patch holds the maximum of the search window and the patch pixel at offset
\* (dr, dc) from the centre is canvas pixel (50 + y_shift + dr, 50 + x_shift +
\* dc); one hit of count 5 at (50, 50) with patch size 5 gives shift (0, 0) and
\* a patch that is 5 at its centre and 0 elsewhere.
C6_PatchCentredOnPeak ==
    (Cropped /\ ~add_noise /\ EVT_SIZE % 2 = 1) =>
        LET h == (EVT_SIZE - 1) \div 2
        IN  /\ DOMAIN patch = 0..(2 * h)
            /\ patch[h][h] = SmallMax
            /\ \A i \in SmallIndex, j \in SmallIndex : evt_small[i][j] <= patch[h][h]
            /\ \A dr \in (-h)..h, dc \in (-h)..h :
                  patch[h + dr][h + dc] = At(evt_arr, 50 + y_shift + dr, 50 + x_shift + dc)
            /\ ( /\ Len(df_evt) = 1
                 /\ <<df_evt[1].row, df_evt[1].col, df_evt[1].counts>> = <<50, 50, 5>>
                 /\ EVT_SIZE = 5 )
               => /\ <<y_shift, x_shift>> = <<0, 0>>
                  /\ \A i \in 0..4, j \in 0..4 :
                        patch[i][j] = IF <<i, j>> = <<2, 2>> THEN 5 ELSE 0

\* A 5x5 patch around the peak at (48, 53) that also holds the hit at (50, 53).
C6_Witness ==
    /\ Returned
    /\ ~add_noise
    /\ EVT_SIZE = 5
    /\ <<y_shift, x_shift>> = <<-2, 3>>
    /\ patch[2][2] > 0
    /\ At(evt_arr, 50, 50) > 0

\* The sum of the counts of the first n rows of the event that fall on pixel p.
RECURSIVE HitSum(_, _)
HitSum(n, p) ==
    IF n = 0 THEN 0
    ELSE HitSum(n - 1, p)
           + (IF <<df_evt[n].row, df_evt[n].col>> = p THEN df_evt[n].counts ELSE 0)

\* The pixels some row of the event falls on.
HitPixelsOf(rows) == {<<rows[n].row, rows[n].col>> : n \in 1..Len(rows)}

\* C7: after the hit loop every canvas pixel holds the sum of the counts of
\* all hits of the event on that pixel, 0 where there is none.  Pixels that
\* are neither stored in evt_arr nor hit hold 0 and have the sum 0.
C7_CanvasAccumulatesHits ==
    (pc # "hits" \/ k = Len(df_evt)) =>
        /\ DOMAIN evt_arr \subseteq (0..(CanvasSize - 1)) \X (0..(CanvasSize - 1))
        /\ \A p \in DOMAIN evt_arr \cup HitPixelsOf(df_evt) :
              At(evt_arr, p[1], p[2]) = HitSum(Len(df_evt), p)

\* Two hits of nonzero count on one pixel.
C7_Witness ==
    /\ pc = "hits"
    /\ k = Len(df_evt)
    /\ k = 2
    /\ <<df_evt[1].row, df_evt[1].col>> = <<df_evt[2].row, df_evt[2].col>>
    /\ df_evt[1].counts > 0
    /\ df_evt[2].counts > 0
    /\ df_evt[1].counts # df_evt[2].counts

\* C8: err = [PIXEL_SIZE*x_shift + xinc, PIXEL_SIZE*y_shift + yinc], where
\* x_shift is the column offset and y_shift the row offset of the peak.
C8_ErrorUsesColumnForX ==
    pc \in {"bin", "done"} =>
        /\ err[1] = PIXEL_SIZE * x_shift + df_evt[1].xinc
        /\ err[2] = PIXEL_SIZE * y_shift + df_evt[1].yinc
        /\ \A i \in SmallIndex, j \in SmallIndex :
              evt_small[i][j] <= evt_small[y_shift + 5][x_shift + 5]
        /\ evt_small[y_shift + 5][x_shift + 5] = At(evt_arr, 50 + y_shift, 50 + x_shift)
                + (IF add_noise THEN draw_small[y_shift + 5][x_shift + 5] ELSE 0)

\* A peak whose row and column offsets differ, with a pixel size above 1.
C8_Witness ==
    /\ Returned
    /\ PIXEL_SIZE > 1
    /\ <<y_shift, x_shift>> = <<-2, 3>>
    /\ df_evt[1].xinc # df_evt[1].yinc

\* C9: an event without hits, or with an all-zero canvas, and no noise: no
\* exception is raised, the patch is all zero and the shift is (-5, -5).
C9_EmptyEventIsDegenerateSample ==
    (~add_noise /\ k = Len(df_evt) /\ evt_arr = Zeros) =>
        /\ exc = "none"
        /\ Cropped =>
              /\ <<y_shift, x_shift>> = <<-5, -5>>
              /\ \A i \in DOMAIN patch : \A j \in DOMAIN patch[i] : patch[i][j] = 0

\* The part of the canvas the patch is cropped from, as l.93 addresses it.
CanvasCrop(i, j) ==
    At(evt_arr, 50 + y_shift - PyIntDiv(EVT_SIZE - 1, 2) + i,
                50 + x_shift - PyIntDiv(EVT_SIZE - 1, 2) + j)

\* C10: with add_noise, the noise on the search window leaves the canvas as
\* the hit loop left it; the patch before the final noise step is the crop of
\* that canvas at the chosen shift, and the returned patch is that crop plus
\* the second draw, whatever the first draw was.
C10_WindowNoiseOnlyPicksPeak ==
    /\ [](add_noise =>
            /\ pc = "noise" =>
                  \A i \in DOMAIN patch : \A j \in DOMAIN patch[i] :
                      patch[i][j] = CanvasCrop(i, j)
            /\ pc \in {"err", "bin", "done", "raised"} =>
                  \A i \in DOMAIN patch : \A j \in DOMAIN patch[i] :
                      patch[i][j] = CanvasCrop(i, j) + draw_patch[i][j])
    /\ [][(add_noise /\ k = Len(df_evt)) => evt_arr' = evt_arr]_vars

\* A returned sample whose peak was moved by the first draw and whose patch
\* got a second draw that differs from the first on the peak pixel.
C10_Witness ==
    /\ Returned
    /\ add_noise
    /\ noise_mean = 0
    /\ EVT_SIZE = 1
    /\ draw_small[2][7] = 1
    /\ <<y_shift, x_shift>> = <<-3, 2>>
    /\ At(evt_arr, 50, 50) = 1
    /\ draw_patch[0][0] = -1
    /\ patch[0][0] = -1

----------------------------------------------------------------------------
\* incidence_predictor.py: GaussianFullRankIncidencePointPredictor.
\*
\* Tensor entries are exact reals written as integers in the unit 1 / One,
\* where One = 10^6 * MaxPatch! so that 1e-6 and every quotient v / H, v / W
\* by a patch dimension are integers.  exp and sigmoid are tabulated in
\* millionths on the raw outputs the model draws.  One batch element is
\* followed; a 2x2 matrix is <<row 0, row 1>>, so that entry (i, j) of the
\* code is M[i + 1][j + 1].

MaxPatch == 2

RECURSIVE Factorial(_)
Factorial(n) == IF n <= 1 THEN 1 ELSE n * Factorial(n - 1)

Scale == Factorial(MaxPatch)
One == 1000000 * Scale
FromMicro(m) == m * Scale

\* The raw values a head output takes in the model.
RawOutputs == {-14, -7, 0, 1}

\* e^r to the nearest millionth.
ExpMicro(r) ==
    CASE r = -14 -> 1
      [] r = -7 -> 912
      [] r = 0 -> 1000000
      [] r = 1 -> 2718282

\* 1 / (1 + e^-r) to the nearest millionth.
SigmoidMicro(r) ==
    CASE r = -14 -> 1
      [] r = -7 -> 911
      [] r = 0 -> 500000
      [] r = 1 -> 731059

\* torch.exp and F.sigmoid, elementwise on a vector.
exp(v) == [i \in DOMAIN v |-> FromMicro(ExpMicro(v[i] \div One))]
sigmoid(v) == [i \in DOMAIN v |-> FromMicro(SigmoidMicro(v[i] \div One))]

\* The constructor arguments eps the model draws (1e-6 and 1e-3).
EpsArgs == {FromMicro(1), FromMicro(1000)}

MeanParameterizations == {"sigmoid", "none"}

\* torch.diag_embed of a 2-vector, torch.eye(2).
diag_embed(v) == <<<<v[1], 0>>, <<0, v[2]>>>>
eye == <<<<1, 0>>, <<0, 1>>>>

\* Scaling matrices hold exact rationals <<numerator, denominator>>.
Rat(n, d) == <<n, d>>
RatDiag(a, b) == <<<<a, Rat(0, 1)>>, <<Rat(0, 1), b>>>>
RatTimes(q, v) == (q[1] * v) \div q[2]

\* A @ M for a rational 2x2 matrix A and a 2x2 matrix M, A @ v for a 2-vector v.
RatMatMul(A, M) ==
    [i \in 1..2 |-> [j \in 1..2 |->
        RatTimes(A[i][1], M[1][j]) + RatTimes(A[i][2], M[2][j])]]
RatMatVec(A, v) ==
    [i \in 1..2 |-> RatTimes(A[i][1], v[1]) + RatTimes(A[i][2], v[2])]

\* M + N * c for 2x2 matrices M, N and a scalar c.
MatAddScaled(M, N, c) == [i \in 1..2 |-> [j \in 1..2 |-> M[i][j] + N[i][j] * c]]

\* The sum of a sequence of integers.
RECURSIVE SumSeq(_)
SumSeq(q) == IF q = <<>> THEN 0 ELSE Head(q) + SumSeq(Tail(q))

\* torch.split(x, sizes, -1): the pieces of x; it raises RuntimeError when
\* the sizes do not add up to the length of x.
RECURSIVE SplitPieces(_, _)
SplitPieces(x, sizes) ==
    IF sizes = <<>> THEN <<>>
    ELSE <<SubSeq(x, 1, Head(sizes))>>
         \o SplitPieces(SubSeq(x, Head(sizes) + 1, Len(x)), Tail(sizes))
split(x, sizes) ==
    IF SumSeq(sizes) = Len(x)
    THEN [raised |-> FALSE, pieces |-> SplitPieces(x, sizes)]
    ELSE [raised |-> TRUE, pieces |-> <<>>]

\* The dataset while no sample is being built.
DatasetIdle ==
    /\ EVT_SIZE = 0
    /\ ERR_SIZE = 0
    /\ PIXEL_SIZE = 0
    /\ PIXEL_ERR_RANGE_MIN = 0
    /\ PIXEL_ERR_RANGE_MAX = 0
    /\ add_noise = FALSE
    /\ add_shift = 0
    /\ noise_mean = 0
    /\ df_evt = <<>>
    /\ pc = "idle"
    /\ k = 0
    /\ evt_arr = Zeros
    /\ evt_small = <<>>
    /\ draw_small = <<>>
    /\ y_shift = 0
    /\ x_shift = 0
    /\ patch = <<>>
    /\ draw_patch = <<>>
    /\ err = <<0, 0>>
    /\ xbin = 0
    /\ ybin = 0
    /\ err_ind = 0
    /\ exc = "none"

NotHeadIdle == DatasetIdle /\ SparseIdle /\ UnpackIdle /\ BlockIdle /\ StageIdle
NotSparseIdle == DatasetIdle /\ HeadIdle /\ UnpackIdle /\ BlockIdle /\ StageIdle
NotUnpackIdle == DatasetIdle /\ HeadIdle /\ SparseIdle /\ BlockIdle /\ StageIdle
NotBlockIdle == DatasetIdle /\ HeadIdle /\ SparseIdle /\ UnpackIdle /\ StageIdle
NotStageIdle == DatasetIdle /\ HeadIdle /\ SparseIdle /\ UnpackIdle /\ BlockIdle

\* The arguments of one construction and the shape of the one input.
InitHeadWith(param, diagonal, eps, shape) ==
    /\ mean_parameterization = param
    /\ diagonal_covariance = diagonal
    /\ eps_arg = eps
    /\ self_eps = 0
    /\ out_dim = 0
    /\ x_shape = shape
    /\ head_pc = "new"
    /\ head_out = <<>>
    /\ patch_shape = <<>>
    /\ mean_vector = <<>>
    /\ cholesky_diagonal = <<>>
    /\ cholesky_offdiag = <<>>
    /\ cholesky = <<>>
    /\ distribution = <<>>
    /\ head_exc = "none"
    /\ NotHeadIdle

\* out_dim always 5.
OutDimFullRank(diagonal) == 5

\* l.22-25
OutDim(diagonal) == IF diagonal THEN 4 ELSE 5

\* self.eps taken from the constructor argument.
SelfEpsFromArg(eps) == eps

\* l.20
SelfEps(eps) == FromMicro(1)

\* __init__, l.16-31.
Construct ==
    /\ head_pc = "new"
    /\ self_eps' = SelfEps(eps_arg)
    /\ out_dim' = OutDim(diagonal_covariance)
    /\ head_pc' = "shape"
    /\ UNCHANGED <<mean_parameterization, diagonal_covariance, eps_arg, x_shape,
                   head_out, patch_shape, mean_vector, cholesky_diagonal,
                   cholesky_offdiag, cholesky, distribution, head_exc>>
    /\ UNCHANGED not_head_vars

\* patch_shape read as (width, height).
PatchShapeOfWH(shape) == <<shape[Len(shape)], shape[Len(shape) - 1]>>

\* l.36: x.shape[-2:]
PatchShapeOf(shape) == <<shape[Len(shape) - 1], shape[Len(shape)]>>

\* l.34-36
PatchShape ==
    /\ head_pc = "shape"
    /\ x_shape' = IF Len(x_shape) = 3
                  THEN <<x_shape[1], 1, x_shape[2], x_shape[3]>>
                  ELSE x_shape
    /\ patch_shape' = PatchShapeOf(x_shape')
    /\ head_pc' = "predict"
    /\ UNCHANGED <<mean_parameterization, diagonal_covariance, eps_arg, self_eps,
                   out_dim, head_out, mean_vector, cholesky_diagonal,
                   cholesky_offdiag, cholesky, distribution, head_exc>>
    /\ UNCHANGED not_head_vars

\* l.38-39: the backbone and the predictor return any out_dim raw outputs.
Predict ==
    /\ head_pc = "predict"
    /\ \E raw \in [1..out_dim -> RawOutputs] :
           head_out' = [i \in 1..out_dim |-> raw[i] * One]
    /\ head_pc' = "split"
    /\ UNCHANGED <<mean_parameterization, diagonal_covariance, eps_arg, self_eps,
                   out_dim, x_shape, patch_shape, mean_vector, cholesky_diagonal,
                   cholesky_offdiag, cholesky, distribution, head_exc>>
    /\ UNCHANGED not_head_vars

\* l.41-46
SplitSizes == IF diagonal_covariance THEN <<2, 2>> ELSE <<2, 2, 1>>

Split ==
    /\ head_pc = "split"
    /\ LET parts == split(head_out, SplitSizes)
           pieces == parts.pieces
       IN  IF parts.raised
           THEN /\ head_exc' = "RuntimeError"
                /\ head_pc' = "raised"
                /\ UNCHANGED <<mean_vector, cholesky_diagonal, cholesky_offdiag>>
           ELSE /\ mean_vector' = pieces[1]
                /\ cholesky_diagonal' = pieces[2]
                /\ cholesky_offdiag' = IF diagonal_covariance THEN <<>> ELSE pieces[3]
                /\ head_pc' = "cholesky"
                /\ UNCHANGED head_exc
    /\ UNCHANGED <<mean_parameterization, diagonal_covariance, eps_arg, self_eps,
                   out_dim, x_shape, head_out, patch_shape, cholesky, distribution>>
    /\ UNCHANGED not_head_vars

\* The off-diagonal output written above the diagonal.
SetUpper(M, v) == [M EXCEPT ![1][2] = v]

\* l.51-52: tril_indices(2, 2, offset=-1) is the one entry (1, 0).
SetLower(M, v) == [M EXCEPT ![2][1] = v]

\* l.48-52
Cholesky ==
    /\ head_pc = "cholesky"
    /\ cholesky_diagonal' = exp(cholesky_diagonal)
    /\ cholesky' = IF ~diagonal_covariance
                   THEN SetLower(diag_embed(cholesky_diagonal'), cholesky_offdiag[1])
                   ELSE diag_embed(cholesky_diagonal')
    /\ head_pc' = "parameterize"
    /\ UNCHANGED <<mean_parameterization, diagonal_covariance, eps_arg, self_eps,
                   out_dim, x_shape, head_out, patch_shape, mean_vector,
                   cholesky_offdiag, distribution, head_exc>>
    /\ UNCHANGED not_head_vars

\* l.58-59
scaling_matrix(ps) == RatDiag(Rat(ps[1], 1), Rat(ps[2], 1))
inverse_scaling_matrix(ps) == RatDiag(Rat(1, ps[1]), Rat(1, ps[2]))

\* l.55-61
Parameterize ==
    /\ head_pc = "parameterize"
    /\ IF mean_parameterization = "sigmoid"
       THEN /\ mean_vector' = RatMatVec(scaling_matrix(patch_shape), sigmoid(mean_vector))
            /\ cholesky' = RatMatMul(inverse_scaling_matrix(patch_shape), cholesky)
       ELSE UNCHANGED <<mean_vector, cholesky>>
    /\ head_pc' = "regularize"
    /\ UNCHANGED <<mean_parameterization, diagonal_covariance, eps_arg, self_eps,
                   out_dim, x_shape, head_out, patch_shape, cholesky_diagonal,
                   cholesky_offdiag, distribution, head_exc>>
    /\ UNCHANGED not_head_vars

\* No regularization at all.
RegularizedNot(M, e) == M

\* l.63-69
Regularized(M, e) == MatAddScaled(M, eye, e)

Regularize ==
    /\ head_pc = "regularize"
    /\ cholesky' = Regularized(cholesky, self_eps)
    /\ head_pc' = "return"
    /\ UNCHANGED <<mean_parameterization, diagonal_covariance, eps_arg, self_eps,
                   out_dim, x_shape, head_out, patch_shape, mean_vector,
                   cholesky_diagonal, cholesky_offdiag, distribution, head_exc>>
    /\ UNCHANGED not_head_vars

\* l.71
Return ==
    /\ head_pc = "return"
    /\ distribution' = [loc |-> mean_vector, scale_tril |-> cholesky]
    /\ head_pc' = "returned"
    /\ UNCHANGED <<mean_parameterization, diagonal_covariance, eps_arg, self_eps,
                   out_dim, x_shape, head_out, patch_shape, mean_vector,
                   cholesky_diagonal, cholesky_offdiag, cholesky, head_exc>>
    /\ UNCHANGED not_head_vars

NextHead ==
    \/ Construct
    \/ PatchShape
    \/ Predict
    \/ Split
    \/ Cholesky
    \/ Parameterize
    \/ Regularize
    \/ Return

\* Every patch shape, with the default eps.
InitHeadShapes ==
    \E param \in MeanParameterizations, diagonal \in BOOLEAN,
       H \in 1..MaxPatch, W \in 1..MaxPatch :
        InitHeadWith(param, diagonal, FromMicro(1), <<1, 1, H, W>>)

\* Every constructor argument eps, on one 3-d input of height 1 and width 2.
InitHeadEps ==
    \E param \in MeanParameterizations, diagonal \in BOOLEAN, eps \in EpsArgs :
        InitHeadWith(param, diagonal, eps, <<1, 1, 2>>)

InitHead == InitHeadShapes \/ InitHeadEps

SpecHead == InitHead /\ [][NextHead]_vars

HeadReturned == head_pc = "returned"

----------------------------------------------------------------------------
\* Exact products of tensor entries, beyond the range of a machine integer:
\* a natural number is its sequence of base-BigBase digits, least significant
\* first, without leading zeros; an integer is a sign and a magnitude.

BigBase == 100 * 100

RECURSIVE ToLimbs(_)
ToLimbs(n) == IF n = 0 THEN <<>> ELSE <<n % BigBase>> \o ToLimbs(n \div BigBase)

LimbHead(a) == IF a = <<>> THEN 0 ELSE Head(a)
LimbTail(a) == IF a = <<>> THEN <<>> ELSE Tail(a)

RECURSIVE Trimmed(_)
Trimmed(a) ==
    IF a = <<>> THEN <<>>
    ELSE IF a[Len(a)] = 0 THEN Trimmed(SubSeq(a, 1, Len(a) - 1)) ELSE a

RECURSIVE LimbsAdd(_, _, _)
LimbsAdd(a, b, carry) ==
    IF a = <<>> /\ b = <<>>
    THEN ToLimbs(carry)
    ELSE LET x == LimbHead(a) + LimbHead(b) + carry
         IN  <<x % BigBase>> \o LimbsAdd(LimbTail(a), LimbTail(b), x \div BigBase)

\* a - b - borrow for a >= b + borrow, digit by digit (not yet trimmed).
RECURSIVE LimbsSub(_, _, _)
LimbsSub(a, b, borrow) ==
    IF a = <<>>
    THEN <<>>
    ELSE LET x == Head(a) - LimbHead(b) - borrow
         IN  IF x < 0
             THEN <<x + BigBase>> \o LimbsSub(Tail(a), LimbTail(b), 1)
             ELSE <<x>> \o LimbsSub(Tail(a), LimbTail(b), 0)

\* a * m + carry for one digit m.
RECURSIVE LimbsScale(_, _, _)
LimbsScale(a, m, carry) ==
    IF a = <<>>
    THEN ToLimbs(carry)
    ELSE LET x == Head(a) * m + carry
         IN  <<x % BigBase>> \o LimbsScale(Tail(a), m, x \div BigBase)

RECURSIVE LimbsMul(_, _)
LimbsMul(a, b) ==
    IF a = <<>> \/ b = <<>>
    THEN <<>>
    ELSE LET rest == LimbsMul(a, Tail(b))
         IN  LimbsAdd(LimbsScale(a, Head(b), 0),
                      IF rest = <<>> THEN <<>> ELSE <<0>> \o rest, 0)

RECURSIVE LimbsLess(_, _)
LimbsLess(a, b) ==
    IF Len(a) # Len(b) THEN Len(a) < Len(b)
    ELSE IF a = <<>> THEN FALSE
    ELSE IF a[Len(a)] # b[Len(b)] THEN a[Len(a)] < b[Len(b)]
    ELSE LimbsLess(SubSeq(a, 1, Len(a) - 1), SubSeq(b, 1, Len(b) - 1))

Big(n) == [neg |-> n < 0, mag |-> ToLimbs(Abs(n))]
BigMul(a, b) ==
    LET m == LimbsMul(a.mag, b.mag)
    IN  [neg |-> (a.neg # b.neg) /\ m # <<>>, mag |-> m]
BigAdd(a, b) ==
    IF a.neg = b.neg THEN [neg |-> a.neg, mag |-> LimbsAdd(a.mag, b.mag, 0)]
    ELSE IF LimbsLess(a.mag, b.mag)
         THEN [neg |-> b.neg, mag |-> Trimmed(LimbsSub(b.mag, a.mag, 0))]
    ELSE LET m == Trimmed(LimbsSub(a.mag, b.mag, 0))
         IN  [neg |-> a.neg /\ m # <<>>, mag |-> m]
BigLess(a, b) ==
    IF a.neg # b.neg THEN a.neg
    ELSE IF a.neg THEN LimbsLess(b.mag, a.mag)
    ELSE LimbsLess(a.mag, b.mag)

\* The covariance L @ L^T of MultivariateNormal(loc, scale_tril=L), in the
\* unit 1 / One^2.
Covariance(L) ==
    [i \in 1..2 |-> [j \in 1..2 |->
        BigAdd(BigMul(Big(L[i][1]), Big(L[j][1])), BigMul(Big(L[i][2]), Big(L[j][2])))]]

\* 1e-6 as a covariance entry.
EpsCovariance == BigMul(Big(FromMicro(1)), Big(One))

\* Sylvester's criterion for a symmetric 2x2 matrix.
PositiveDefinite(S) ==
    /\ BigLess(Big(0), S[1][1])
    /\ BigLess(BigMul(S[1][2], S[2][1]), BigMul(S[1][1], S[2][2]))

EpsSquared == BigMul(Big(FromMicro(1)), Big(FromMicro(1)))

patch_height == x_shape[Len(x_shape) - 1]
patch_width == x_shape[Len(x_shape)]

\* C13: with mean_parameterization = "sigmoid" the mean of the returned
\* distribution lies within [0, patch_width] x [0, patch_height]: its first
\* component is in [0, W] and its second in [0, H], for every raw mean output
\* and every patch, square or not.
C13_SigmoidMeanWithinWidthHeight ==
    (HeadReturned /\ mean_parameterization = "sigmoid") =>
        /\ 0 <= distribution.loc[1]
        /\ distribution.loc[1] <= patch_width * One
        /\ 0 <= distribution.loc[2]
        /\ distribution.loc[2] <= patch_height * One

Constructed == head_pc \notin {"idle", "new"}
Predicted == head_pc \notin {"idle", "new", "shape", "predict"}

\* C14: no call of forward ends in a dimension error: for every constructor
\* configuration the head emits exactly 4 outputs when diagonal_covariance is
\* true and exactly 5 otherwise, and the split of l.41-46 hands every one of
\* them to the mean, the Cholesky diagonal or the off-diagonal, none dropped.
C14_SplitConsumesEveryOutput ==
    /\ head_exc = "none"
    /\ head_pc # "raised"
    /\ Constructed => out_dim = (IF diagonal_covariance THEN 4 ELSE 5)
    /\ Predicted => Len(head_out) = out_dim
    /\ head_pc = "cholesky" =>
           /\ mean_vector \o cholesky_diagonal \o cholesky_offdiag = head_out
           /\ Len(mean_vector) = 2
           /\ Len(cholesky_diagonal) = 2
           /\ Len(cholesky_offdiag) = (IF diagonal_covariance THEN 0 ELSE 1)

C14_Witness ==
    /\ head_pc = "cholesky"
    /\ diagonal_covariance
    /\ Len(head_out) = 4
    /\ cholesky_diagonal = SubSeq(head_out, 3, 4)

\* v / n for a tensor entry v that n divides exactly.
ExactQuotient(v, n) == CHOOSE q \in {v \div n} : q * n = v

\* C19: the constant added to the Cholesky diagonal is 1e-6 for every value
\* of the constructor argument eps, and it is added after the sigmoid-mode
\* rescaling: in sigmoid mode the final diagonal entry i is
\* exp(raw_i) / patch_shape_i + 1e-6 (exp(raw_i) + 1e-6 otherwise), and the
\* off-diagonal entry is the rescaled raw output with nothing added.
C19_RegularizationIsFixedAndLast ==
    /\ Constructed => self_eps = FromMicro(1)
    /\ HeadReturned =>
           LET L == distribution.scale_tril
               raw == exp(SubSeq(head_out, 3, 4))
               off == IF diagonal_covariance THEN 0 ELSE head_out[5]
           IN  IF mean_parameterization = "sigmoid"
               THEN /\ \A i \in 1..2 :
                           L[i][i] = ExactQuotient(raw[i], patch_shape[i]) + FromMicro(1)
                    /\ L[2][1] = ExactQuotient(off, patch_shape[2])
               ELSE /\ \A i \in 1..2 : L[i][i] = raw[i] + FromMicro(1)
                    /\ L[2][1] = off

C19_Witness ==
    /\ HeadReturned
    /\ eps_arg = FromMicro(1000)
    /\ mean_parameterization = "sigmoid"
    /\ ~diagonal_covariance
    /\ patch_shape = <<1, 2>>
    /\ head_out[5] # 0
    /\ distribution.scale_tril[2][2] = ExactQuotient(exp(<<head_out[4]>>)[1], 2) + FromMicro(1)

----------------------------------------------------------------------------
\* sparse_utils.py.
\*
\* A torch sparse COO tensor is [shape, sparse_dim, indices, values]: indices
\* is the sparse_dim x nnz matrix of indices() as a sequence of rows, values
\* the nnz values, each an integer (values() is 1-D) or a sequence of the
\* trailing dense dimension.  An spconv SparseConvTensor is [features,
\* num_features, indices, spatial_shape, batch_size] with indices the
\* nnz x (1 + spatial dimensions) matrix as a sequence of rows.

MaxNnz == 2

\* The values stored in the tensors of the model.
StoredValues == {1, 2}

\* The shapes [batch, H, W, C] of the tensors of the model.
SparseShapes == {<<3, 1, 2, 1>>, <<2, 2, 1, 2>>}

RECURSIVE Prod(_)
Prod(q) == IF q = <<>> THEN 1 ELSE Head(q) * Prod(Tail(q))

\* Every index tuple within a shape.
RECURSIVE Coordinates(_)
Coordinates(shape) ==
    IF shape = <<>> THEN {<<>>}
    ELSE {<<i>> \o c : i \in 0..(Head(shape) - 1), c \in Coordinates(Tail(shape))}

\* Position of an index tuple in the row-major order of a shape.
RECURSIVE RowMajor(_, _)
RowMajor(c, shape) ==
    IF Len(shape) = 0 THEN 0
    ELSE c[1] * Prod(Tail(shape)) + RowMajor(Tail(c), Tail(shape))

\* A set of index tuples in the order coalesce() leaves them.
RECURSIVE Sorted(_, _)
Sorted(S, shape) ==
    IF S = {} THEN <<>>
    ELSE LET m == CHOOSE c \in S : \A d \in S : RowMajor(c, shape) <= RowMajor(d, shape)
         IN  <<m>> \o Sorted(S \ {m}, shape)

\* The transpose of a matrix with n columns, given as a sequence of rows.
Transposed(M, n) == [j \in 1..n |-> [i \in 1..Len(M) |-> M[i][j]]]

\* The sum of the values v[n], n in N, each an integer or a sequence of d integers.
RECURSIVE SumOver(_, _, _)
SumOver(v, N, d) ==
    IF N = {} THEN (IF d = 0 THEN 0 ELSE [i \in 1..d |-> 0])
    ELSE LET n == CHOOSE x \in N : TRUE
             rest == SumOver(v, N \ {n}, d)
         IN  IF d = 0 THEN v[n] + rest ELSE [i \in 1..d |-> v[n][i] + rest[i]]

\* torch.sparse_coo_tensor(indices, values, size).coalesce(), for an index
\* matrix of sparse_dim rows and count columns: one entry per distinct index
\* tuple, in sorted order, holding the sum of its duplicates.
coalesce(indices, values, size, sparse_dim, count) ==
    LET entries == Transposed(indices, count)
        dense == IF sparse_dim = Len(size) THEN 0 ELSE size[Len(size)]
        order == Sorted({entries[n] : n \in 1..count}, SubSeq(size, 1, sparse_dim))
    IN  [shape |-> size,
         sparse_dim |-> sparse_dim,
         indices |-> Transposed(order, sparse_dim),
         values |-> [m \in 1..Len(order) |->
                        SumOver(values, {n \in 1..count : entries[n] = order[m]}, dense)]]

nnz(t) == Len(t.values)

\* l.11-31
torch_sparse_to_spconv(tensor) ==
    LET spatial_shape == SubSeq(tensor.shape, 2, Len(tensor.shape) - 1)
        batch_size == tensor.shape[1]
        scalars == tensor.sparse_dim = Len(tensor.shape)
        features_th == IF scalars
                       THEN [n \in 1..nnz(tensor) |-> <<tensor.values[n]>>]
                       ELSE tensor.values
        indices_th == IF scalars
                      THEN SubSeq(tensor.indices, 1, Len(tensor.indices) - 1)
                      ELSE tensor.indices
    IN  [features |-> features_th,
         num_features |-> IF scalars THEN 1 ELSE tensor.shape[Len(tensor.shape)],
         indices |-> Transposed(indices_th, nnz(tensor)),
         spatial_shape |-> spatial_shape,
         batch_size |-> batch_size]

\* l.34-56
spconv_to_torch_sparse(tensor) ==
    LET size == <<tensor.batch_size>> \o tensor.spatial_shape \o <<tensor.num_features>>
        indices == Transposed(tensor.indices, 1 + Len(tensor.spatial_shape))
    IN  coalesce(indices, tensor.features, size, 1 + Len(tensor.spatial_shape),
                 Len(tensor.features))

\* to_dense(): the element at every full index tuple of the shape.
to_dense(t) ==
    [c \in Coordinates(t.shape) |->
        IF t.sparse_dim = Len(t.shape)
        THEN SumOver(t.values,
                     {n \in 1..nnz(t) : \A r \in 1..t.sparse_dim : t.indices[r][n] = c[r]}, 0)
        ELSE SumOver([n \in 1..nnz(t) |-> t.values[n][c[Len(c)] + 1]],
                     {n \in 1..nnz(t) : \A r \in 1..t.sparse_dim : t.indices[r][n] = c[r]}, 0)]

\* Strides that leave out the dimension that follows.
DimLinearOffsetsSkipped(sparse_shape) ==
    [i \in 1..Len(sparse_shape) |-> Prod(SubSeq(sparse_shape, i + 2, Len(sparse_shape)))]

\* l.127-129
dim_linear_offsets(sparse_shape) ==
    [i \in 1..Len(sparse_shape) |-> Prod(SubSeq(sparse_shape, i + 1, Len(sparse_shape)))]

\* (index * dim_linear_offsets).sum() of l.131-133 and l.155.
RECURSIVE Dot(_, _)
Dot(a, b) == IF a = <<>> THEN 0 ELSE Head(a) * Head(b) + Dot(Tail(a), Tail(b))

\* l.126-167, for an index_tensor of shape [N, S] given as its N rows and
\* with the right last dimension.
gather_from_sparse_tensor(tensor, index) ==
    LET sparse_shape == SubSeq(tensor.shape, 1, tensor.sparse_dim)
        offsets == dim_linear_offsets(sparse_shape)
        entries == Transposed(tensor.indices, nnz(tensor))
        sparse_tensor_indices_linear == [n \in 1..nnz(tensor) |-> Dot(entries[n], offsets)]
        index_tensor_linearized == [q \in 1..Len(index) |-> Dot(index[q], offsets)]
        dense == IF tensor.sparse_dim = Len(tensor.shape)
                 THEN 0 ELSE tensor.shape[Len(tensor.shape)]
    IN  [q \in 1..Len(index) |->
            SumOver(tensor.values,
                    {n \in 1..nnz(tensor) :
                        sparse_tensor_indices_linear[n] = index_tensor_linearized[q]},
                    dense)]

\* The largest element of a non-empty sequence.
RECURSIVE MaxOf(_)
MaxOf(q) == IF Len(q) = 1 THEN q[1] ELSE PyMax(Head(q), MaxOf(Tail(q)))

\* argmax(0) of one column: the position, from 0, of the first largest element.
FirstArgMax(col) == CHOOSE n \in 0..(Len(col) - 1) :
    /\ col[n + 1] = MaxOf(col)
    /\ \A m \in 0..(n - 1) : col[m + 1] # MaxOf(col)

\* l.187-193, for an indices_tensor with at least one column.
batch_offsets_from_sparse_tensor_indices(indices_tensor) ==
    LET batch_indices == indices_tensor[1]
        max_batch_index == MaxOf(batch_indices)
        matching_indices == [b \in 0..max_batch_index |->
                                [n \in 1..Len(batch_indices) |->
                                    IF batch_indices[n] = b THEN 1 ELSE 0]]
    IN  [b \in 1..(max_batch_index + 1) |-> FirstArgMax(matching_indices[b - 1])]

\* The values one entry can hold: an integer when every dimension is sparse,
\* else a vector over the trailing dimension.
EntryValues(shape, sparse_dim) ==
    IF sparse_dim = Len(shape) THEN StoredValues
    ELSE [1..shape[Len(shape)] -> {0} \cup StoredValues]

\* The coalesced tensor with the entries vals[c], c in DOMAIN vals.
SparseTensor(shape, sparse_dim, vals) ==
    LET order == Sorted(DOMAIN vals, SubSeq(shape, 1, sparse_dim))
    IN  [shape |-> shape,
         sparse_dim |-> sparse_dim,
         indices |-> Transposed(order, sparse_dim),
         values |-> [m \in 1..Len(order) |-> vals[order[m]]]]

InitSparse ==
    /\ \E shape \in SparseShapes, sparse_dim \in {3, 4} :
       \E S \in SUBSET Coordinates(SubSeq(shape, 1, sparse_dim)) :
           /\ Cardinality(S) <= MaxNnz
           /\ \E vals \in [S -> EntryValues(shape, sparse_dim)] :
                  sparse_tensor = SparseTensor(shape, sparse_dim, vals)
    /\ sparse_pc = "start"
    /\ spconv_tensor = <<>>
    /\ torch_tensor = <<>>
    /\ index_tensor = <<>>
    /\ gathered = <<>>
    /\ batch_offsets = <<>>
    /\ sparse_exc = "none"
    /\ NotSparseIdle

\* torch_sparse_to_spconv(sparse_tensor)
ToSpconv ==
    /\ sparse_pc = "start"
    /\ spconv_tensor' = torch_sparse_to_spconv(sparse_tensor)
    /\ sparse_pc' = "spconv"
    /\ UNCHANGED <<sparse_tensor, torch_tensor, index_tensor, gathered, batch_offsets,
                   sparse_exc>>
    /\ UNCHANGED not_sparse_vars

\* spconv_to_torch_sparse(spconv_tensor)
ToTorchSparse ==
    /\ sparse_pc = "spconv"
    /\ torch_tensor' = spconv_to_torch_sparse(spconv_tensor)
    /\ sparse_pc' = "round_trip"
    /\ UNCHANGED <<sparse_tensor, spconv_tensor, index_tensor, gathered, batch_offsets,
                   sparse_exc>>
    /\ UNCHANGED not_sparse_vars

\* The index tensors of the model: one row, an index tuple over the sparse
\* dimensions or over one dimension fewer.
IndexTensors(tensor) ==
    {<<c>> : c \in Coordinates(SubSeq(tensor.shape, 1, tensor.sparse_dim))
                   \cup Coordinates(SubSeq(tensor.shape, 1, tensor.sparse_dim - 1))}

\* gather_from_sparse_tensor(sparse_tensor, index_tensor), l.120-167.
Gather ==
    /\ sparse_pc = "start"
    /\ \E index \in IndexTensors(sparse_tensor) :
           /\ index_tensor' = index
           /\ IF Len(index[1]) # sparse_tensor.sparse_dim
              THEN /\ sparse_exc' = "ValueError"
                   /\ sparse_pc' = "raised"
                   /\ UNCHANGED gathered
              ELSE /\ gathered' = gather_from_sparse_tensor(sparse_tensor, index)
                   /\ sparse_pc' = "gathered"
                   /\ UNCHANGED sparse_exc
    /\ UNCHANGED <<sparse_tensor, spconv_tensor, torch_tensor, batch_offsets>>
    /\ UNCHANGED not_sparse_vars

\* batch_offsets_from_sparse_tensor_indices(sparse_tensor.indices()), l.186-193;
\* max() of an empty tensor raises RuntimeError.
BatchOffsets ==
    /\ sparse_pc = "start"
    /\ IF nnz(sparse_tensor) = 0
       THEN /\ sparse_exc' = "RuntimeError"
            /\ sparse_pc' = "raised"
            /\ UNCHANGED batch_offsets
       ELSE /\ batch_offsets' =
                   batch_offsets_from_sparse_tensor_indices(sparse_tensor.indices)
            /\ sparse_pc' = "offsets"
            /\ UNCHANGED sparse_exc
    /\ UNCHANGED <<sparse_tensor, spconv_tensor, torch_tensor, index_tensor, gathered>>
    /\ UNCHANGED not_sparse_vars

NextSparse ==
    \/ ToSpconv
    \/ ToTorchSparse
    \/ Gather
    \/ BatchOffsets

SpecSparse == InitSparse /\ [][NextSparse]_vars

\* C15: converting a coalesced sparse tensor of shape [batch, H, W, C] to
\* spconv form and back reproduces it exactly -- the same shape and the same
\* element at every coordinate -- for every C >= 1 and for values stored as
\* 1-D scalars or as per-coordinate feature vectors; and in spconv form the
\* leading coordinate of every entry is its batch index.
C15_RoundTripReproducesTensor ==
    /\ sparse_pc \in {"spconv", "round_trip"} =>
           \A n \in 1..nnz(sparse_tensor) :
               spconv_tensor.indices[n][1] = sparse_tensor.indices[1][n]
    /\ sparse_pc = "round_trip" =>
           /\ torch_tensor.shape = sparse_tensor.shape
           /\ to_dense(torch_tensor) = to_dense(sparse_tensor)

\* sparse_tensor[index]: the value stored at an index tuple over the sparse
\* dimensions, zero when nothing is stored there.
ElementAt(t, index) ==
    LET at == {n \in 1..nnz(t) : \A r \in 1..t.sparse_dim : t.indices[r][n] = index[r]}
    IN  IF at # {} THEN t.values[CHOOSE n \in at : TRUE]
        ELSE IF t.sparse_dim = Len(t.shape) THEN 0
        ELSE [i \in 1..t.shape[Len(t.shape)] |-> 0]

\* C16: gather_from_sparse_tensor(sparse_tensor, index_tensor) is
\* sparse_tensor[index_tensor]: for every in-range index tuple over the S
\* sparse dimensions the returned element is the value stored at that
\* coordinate, or 0 when none is stored, and no two different in-range
\* coordinates are given the same linearized index.
C16_GatherIsIndexing ==
    sparse_pc = "gathered" =>
        LET sparse_shape == SubSeq(sparse_tensor.shape, 1, sparse_tensor.sparse_dim)
            offsets == dim_linear_offsets(sparse_shape)
        IN  /\ Len(gathered) = Len(index_tensor)
            /\ \A q \in 1..Len(index_tensor) :
                   gathered[q] = ElementAt(sparse_tensor, index_tensor[q])
            /\ \A c, d \in Coordinates(sparse_shape) :
                   c # d => Dot(c, offsets) # Dot(d, offsets)

C16_Witness ==
    /\ sparse_pc = "gathered"
    /\ sparse_tensor.shape = <<2, 2, 1, 2>>
    /\ sparse_tensor.sparse_dim = 3
    /\ nnz(sparse_tensor) = 2
    /\ index_tensor = <<<<1, 1, 0>>>>
    /\ gathered = <<<<2, 1>>>>

\* C17: for the indices of a coalesced sparse tensor,
\* batch_offsets_from_sparse_tensor_indices returns max_batch_index + 1
\* elements, and element b is the position of the first entry whose batch
\* index is b -- for a batch index without entries, the position at which
\* its entries would begin, i.e. the number of entries of smaller batch
\* index -- for every b in 0..max_batch_index.
C17_OffsetsForEveryBatchIndex ==
    sparse_pc = "offsets" =>
        LET batch_indices == sparse_tensor.indices[1]
        IN  /\ Len(batch_offsets) = MaxOf(batch_indices) + 1
            /\ \A b \in 0..MaxOf(batch_indices) :
                   batch_offsets[b + 1] =
                       Cardinality({n \in 1..Len(batch_indices) : batch_indices[n] < b})

----------------------------------------------------------------------------
\* sparse_utils.unpack_sparse_tensors.
\*
\* A key is the sequence of the pieces its string splits into at "_":
\* <<"a", "indices">> is "a_indices".  A value given in the batch is
\* [kind |-> "tensor", name |-> its key]; a converted one is
\* [kind |-> "sparse", indices, values, shape] of the three values it was
\* built from.

Suffixes == {"indices", "values", "shape"}

\* The keys the batches of the model are drawn from.
BatchKeys ==
    {<<"a">>, <<"c">>, <<"c", "values">>}
    \cup {<<"a", x>> : x \in Suffixes}
    \cup {<<"a", "indices", x>> : x \in Suffixes}

\* prefix + "_" + suffix
KeyOf(prefix, suffix) == Append(prefix, suffix)

\* l.71-85: the non-empty prefixes of the keys that end in "_" + suffix.
PrefixesOf(b, suffix) ==
    {SubSeq(key, 1, Len(key) - 1) :
        key \in {x \in DOMAIN b : Len(x) >= 2 /\ x[Len(x)] = suffix}}

\* l.86
Prefixes(b) ==
    PrefixesOf(b, "indices") \cap PrefixesOf(b, "values") \cap PrefixesOf(b, "shape")

InitUnpack ==
    /\ \E keys \in SUBSET BatchKeys :
           batch_arg = [key \in keys |-> [kind |-> "tensor", name |-> key]]
    /\ batch = batch_arg
    /\ unpack_pc = "call"
    /\ prefixes = {}
    /\ calls = 0
    /\ first_result = <<>>
    /\ unpack_exc = "none"
    /\ NotUnpackIdle

\* l.71-86
Enter ==
    /\ unpack_pc = "call"
    /\ prefixes' = Prefixes(batch)
    /\ unpack_pc' = "loop"
    /\ UNCHANGED <<batch_arg, batch, calls, first_result, unpack_exc>>
    /\ UNCHANGED not_unpack_vars

\* l.88-100 for one prefix, taken in the arbitrary order of list(set(...)).
\* A key an earlier iteration deleted raises KeyError; torch.sparse_coo_tensor
\* raises RuntimeError when given a sparse tensor as indices or values, and
\* tolist() of a sparse shape raises likewise.
Convert ==
    /\ unpack_pc = "loop"
    /\ \E prefix \in prefixes :
           LET three == {KeyOf(prefix, x) : x \in Suffixes}
           IN  IF ~(three \subseteq DOMAIN batch)
               THEN /\ unpack_exc' = "KeyError"
                    /\ unpack_pc' = "raised"
                    /\ UNCHANGED <<batch, prefixes>>
               ELSE IF \E key \in three : batch[key].kind = "sparse"
               THEN /\ unpack_exc' = "RuntimeError"
                    /\ unpack_pc' = "raised"
                    /\ UNCHANGED <<batch, prefixes>>
               ELSE /\ batch' =
                           [key \in (DOMAIN batch \cup {prefix}) \ three |->
                               IF key = prefix
                               THEN [kind |-> "sparse",
                                     indices |-> batch[KeyOf(prefix, "indices")],
                                     values |-> batch[KeyOf(prefix, "values")],
                                     shape |-> batch[KeyOf(prefix, "shape")]]
                               ELSE batch[key]]
                    /\ prefixes' = prefixes \ {prefix}
                    /\ UNCHANGED <<unpack_pc, unpack_exc>>
    /\ UNCHANGED <<batch_arg, calls, first_result>>
    /\ UNCHANGED not_unpack_vars

\* l.101; the result is then given to a second call.
ReturnBatch ==
    /\ unpack_pc = "loop"
    /\ prefixes = {}
    /\ calls < 2
    /\ calls' = calls + 1
    /\ first_result' = IF calls = 0 THEN batch ELSE first_result
    /\ unpack_pc' = IF calls = 0 THEN "call" ELSE "done"
    /\ UNCHANGED <<batch_arg, batch, prefixes, unpack_exc>>
    /\ UNCHANGED not_unpack_vars

NextUnpack ==
    \/ Enter
    \/ Convert
    \/ ReturnBatch

SpecUnpack == InitUnpack /\ [][NextUnpack]_vars

\* The prefixes all three of whose keys the batch was given.
Complete == {prefix \in PrefixesOf(batch_arg, "indices") :
                \A x \in Suffixes : KeyOf(prefix, x) \in DOMAIN batch_arg}
\* The keys of those prefixes.
Packed == {KeyOf(prefix, x) : prefix \in Complete, x \in Suffixes}

\* C18: unpack_sparse_tensors converts exactly the prefixes P all three of
\* whose keys P_indices, P_values, P_shape are in the batch: the call returns,
\* afterwards the batch has key P (a sparse tensor) and none of those three
\* keys, every other key is still present with its value unchanged, nothing
\* else is converted, and a second call on the result changes nothing.
C18_UnpackConvertsExactlyCompletePrefixes ==
    /\ unpack_exc = "none"
    /\ calls >= 1 =>
           /\ \A prefix \in Complete :
                  /\ prefix \in DOMAIN first_result
                  /\ first_result[prefix].kind = "sparse"
                  /\ \A x \in Suffixes : KeyOf(prefix, x) \notin DOMAIN first_result
           /\ \A key \in DOMAIN batch_arg \ (Packed \cup Complete) :
                  /\ key \in DOMAIN first_result
                  /\ first_result[key] = batch_arg[key]
           /\ DOMAIN first_result \subseteq DOMAIN batch_arg \cup Complete
           /\ \A key \in DOMAIN first_result :
                  first_result[key].kind = "sparse" => key \in Complete
    /\ calls = 2 => batch = first_result

----------------------------------------------------------------------------
\* blocks.py: the choice of the convolution class in the constructors of the
\* sparse blocks.  A conv_type string is the sequence of its characters.

Sub == <<"s", "u", "b">>
Sparse == <<"s", "p", "a", "r", "s", "e">>
Submanifold == <<"s", "u", "b", "m", "a", "n", "i", "f", "o", "l", "d">>

\* The conv_type arguments of the model: "sparse", "submanifold", "sub",
\* "subm", "dense", "", "Sparse", "sparsesub", "sparse2", "conv".
ConvTypes ==
    {<<"s", "p", "a", "r", "s", "e">>,
     <<"s", "u", "b", "m", "a", "n", "i", "f", "o", "l", "d">>,
     <<"s", "u", "b">>,
     <<"s", "u", "b", "m">>,
     <<"d", "e", "n", "s", "e">>,
     <<>>,
     <<"S", "p", "a", "r", "s", "e">>,
     <<"s", "p", "a", "r", "s", "e", "s", "u", "b">>,
     <<"s", "p", "a", "r", "s", "e", "2">>,
     <<"c", "o", "n", "v">>}

BlockClasses == {"SparseBasicBlock", "SparseBottleneck", "SparseBottleneckV2"}

\* Python's `sub in s` for strings.
Contains(sub, str) ==
    \E i \in 1..(Len(str) - Len(sub) + 1) : SubSeq(str, i, i + Len(sub) - 1) = sub

\* SparseBasicBlock.__init__, l.29-37; the assert of l.29 is not executed
\* under python -O.
SparseBasicBlock(type, O) ==
    IF ~O /\ (Contains(Sub, type) = Contains(Sparse, type))
    THEN [exc |-> "AssertionError", conv_layer |-> "none"]
    ELSE IF Contains(Sub, type) THEN [exc |-> "none", conv_layer |-> "SubMConv2d"]
    ELSE IF Contains(Sparse, type) THEN [exc |-> "none", conv_layer |-> "SparseConv2d"]
    ELSE [exc |-> "ValueError", conv_layer |-> "none"]

\* SparseBottleneck.__init__, l.58
SparseBottleneck(type, O) == [exc |-> "NotImplementedError", conv_layer |-> "none"]

\* SparseBottleneckV2.__init__, l.134-142
SparseBottleneckV2(type, O) ==
    IF type = Sparse THEN [exc |-> "none", conv_layer |-> "SparseConv2d"]
    ELSE IF type = Submanifold THEN [exc |-> "none", conv_layer |-> "SubMConv2d"]
    ELSE [exc |-> "ValueError", conv_layer |-> "none"]

InitBlock ==
    /\ block_class \in BlockClasses
    /\ conv_type \in ConvTypes
    /\ optimize \in BOOLEAN
    /\ block_pc = "new"
    /\ conv_layer = "none"
    /\ block_exc = "none"
    /\ NotBlockIdle

\* The outcome of one constructor.
Constructs(class, outcome) ==
    /\ block_pc = "new"
    /\ block_class = class
    /\ conv_layer' = outcome.conv_layer
    /\ block_exc' = outcome.exc
    /\ block_pc' = IF outcome.exc = "none" THEN "constructed" ELSE "raised"
    /\ UNCHANGED <<block_class, conv_type, optimize>>
    /\ UNCHANGED not_block_vars

ConstructBasicBlock ==
    Constructs("SparseBasicBlock", SparseBasicBlock(conv_type, optimize))

ConstructBottleneck ==
    Constructs("SparseBottleneck", SparseBottleneck(conv_type, optimize))

ConstructBottleneckV2 ==
    Constructs("SparseBottleneckV2", SparseBottleneckV2(conv_type, optimize))

NextBlock ==
    \/ ConstructBasicBlock
    \/ ConstructBottleneck
    \/ ConstructBottleneckV2

SpecBlock == InitBlock /\ [][NextBlock]_vars

\* C20: SparseBasicBlock raises ValueError for every conv_type that contains
\* neither "sub" nor "sparse"; SparseBottleneckV2 raises ValueError for every
\* conv_type other than exactly "sparse" or "submanifold"; and every
\* conv_type SparseBottleneckV2 accepts is accepted by SparseBasicBlock with
\* the same convolution class (SparseConv2d for "sparse", SubMConv2d for
\* "submanifold").
C20_UnknownConvTypeRaisesValueError ==
    block_pc \in {"constructed", "raised"} =>
        /\ (/\ block_class = "SparseBasicBlock"
            /\ ~Contains(Sub, conv_type)
            /\ ~Contains(Sparse, conv_type)) => block_exc = "ValueError"
        /\ (/\ block_class = "SparseBottleneckV2"
            /\ conv_type \notin {Sparse, Submanifold}) => block_exc = "ValueError"
        /\ (block_class = "SparseBottleneckV2" /\ block_exc = "none") =>
               /\ SparseBasicBlock(conv_type, optimize) =
                      [exc |-> "none", conv_layer |-> conv_layer]
               /\ conv_layer = (IF conv_type = Sparse THEN "SparseConv2d" ELSE "SubMConv2d")

----------------------------------------------------------------------------
\* blocks.py: SparseResnetV2Stage.__init__ and the part of
\* SparseBottleneckV2.__init__ that depends on its arguments.  A drop-path
\* rate is an integer number of hundredths; block_dpr is a record whose
\* field given is FALSE for None.

MaxChs == 2
MaxStride == 2
MaxDepth == 2

\* The conv_layer arguments of the model: "sparse", "submanifold", "dense".
StageConvTypes == {Sparse, Submanifold, <<"d", "e", "n", "s", "e">>}

\* The drop-path rates of the model: 0.0 and 0.1.
Rates == {0, 10}

\* The lists of rates of length n.
RateLists(n) == [1..n -> Rates]

\* The block_dpr arguments of the model: None, and every list of rates of
\* length 0..MaxDepth.
BlockDprs ==
    {[given |-> FALSE, list |-> <<>>]} \cup
    {[given |-> TRUE, list |-> l] : l \in UNION {RateLists(n) : n \in 0..MaxDepth}}

\* Python's truth value of block_dpr, l.224: None and the empty list are false.
Truthy(dpr) == dpr.given /\ Len(dpr.list) > 0

\* Python's `a or b` for integers, l.145.
PyOr(a, b) == IF a # 0 THEN a ELSE b

\* l.224: whether the subscript block_dpr[block_index] is out of range.
DprIndexError(dpr, index) == Truthy(dpr) /\ index >= Len(dpr.list)

\* l.224: the drop-path rate of the block.
DropPathRate(dpr, index) == IF Truthy(dpr) THEN dpr.list[index + 1] ELSE 0

\* The stride kept for every block.
StrideKept(index, s) == s

\* l.225: the stride of the block.
StrideOf(index, s) == IF index = 0 THEN s ELSE 1

\* SparseBottleneckV2.__init__, l.133-184: the outcome of the constructor,
\* and the attributes of the block it builds.  np.prod of an integer stride
\* is the stride.
BottleneckV2(type, inp, out, s, rate) ==
    LET chosen == SparseBottleneckV2(type, FALSE)
        out_ == PyOr(out, inp)
    IN  [exc |-> chosen.exc,
         conv_layer |-> chosen.conv_layer,
         in_chs |-> inp,
         out_chs |-> out_,
         stride |-> s,
         downsample |-> IF inp # out_ \/ s > 1 THEN chosen.conv_layer ELSE "none",
         drop_path_rate |-> rate,
         drop_path |-> IF rate > 0 THEN "DropPath" ELSE "Identity"]

\* l.186-191: whether forward takes the shortcut from the downsample layer.
ShortcutIsDownsampled(block) == block.downsample # "none"

InitStage ==
    /\ stage_conv_layer \in StageConvTypes
    /\ in_chs \in 1..MaxChs
    /\ out_chs \in 1..MaxChs
    /\ stride_arg \in 1..MaxStride
    /\ depth \in 0..MaxDepth
    /\ block_dpr \in BlockDprs
    /\ stride = stride_arg
    /\ prev_chs = 0
    /\ block_index = 0
    /\ blocks = <<>>
    /\ stage_pc = "new"
    /\ stage_exc = "none"
    /\ NotStageIdle

stage_args == <<stage_conv_layer, in_chs, out_chs, stride_arg, depth, block_dpr>>

\* l.219-222
StageEnter ==
    /\ stage_pc = "new"
    /\ prev_chs' = in_chs
    /\ blocks' = <<>>
    /\ block_index' = 0
    /\ stage_pc' = "loop"
    /\ UNCHANGED <<stage_args, stride, stage_exc>>
    /\ UNCHANGED not_stage_vars

\* The block one iteration of the loop constructs, l.225-239.
NewBlock ==
    BottleneckV2(stage_conv_layer, prev_chs, out_chs, StrideOf(block_index, stride),
                 DropPathRate(block_dpr, block_index))

\* l.224 raises IndexError
RaiseIndexError ==
    /\ stage_pc = "loop"
    /\ block_index < depth
    /\ DprIndexError(block_dpr, block_index)
    /\ stage_exc' = "IndexError"
    /\ stage_pc' = "raised"
    /\ UNCHANGED <<stage_args, stride, prev_chs, block_index, blocks>>
    /\ UNCHANGED not_stage_vars

\* l.224-226: the constructor of the block raises
RaiseFromBlock ==
    /\ stage_pc = "loop"
    /\ block_index < depth
    /\ ~DprIndexError(block_dpr, block_index)
    /\ NewBlock.exc # "none"
    /\ stride' = StrideOf(block_index, stride)
    /\ stage_exc' = NewBlock.exc
    /\ stage_pc' = "raised"
    /\ UNCHANGED <<stage_args, prev_chs, block_index, blocks>>
    /\ UNCHANGED not_stage_vars

\* l.223-240: one iteration of the loop
AddBlock ==
    /\ stage_pc = "loop"
    /\ block_index < depth
    /\ ~DprIndexError(block_dpr, block_index)
    /\ NewBlock.exc = "none"
    /\ stride' = StrideOf(block_index, stride)
    /\ blocks' = Append(blocks, NewBlock)
    /\ prev_chs' = out_chs
    /\ block_index' = block_index + 1
    /\ UNCHANGED <<stage_args, stage_pc, stage_exc>>
    /\ UNCHANGED not_stage_vars

\* l.223: range(depth) is exhausted and __init__ returns
StageDone ==
    /\ stage_pc = "loop"
    /\ block_index >= depth
    /\ stage_pc' = "constructed"
    /\ UNCHANGED <<stage_args, stride, prev_chs, block_index, blocks, stage_exc>>
    /\ UNCHANGED not_stage_vars

NextStage ==
    \/ StageEnter
    \/ RaiseIndexError
    \/ RaiseFromBlock
    \/ AddBlock
    \/ StageDone

SpecStage == InitStage /\ [][NextStage]_vars

\* C21: in a stage of any depth >= 1 only block 0 is built with the stage's
\* stride and with in_chs as input channels; every block of index >= 1 is
\* built with stride 1 and out_chs input channels and so has no downsample
\* layer, while block 0 has one exactly when in_chs differs from out_chs or
\* the stride exceeds 1; block i is built with the drop-path rate
\* block_dpr[i] when block_dpr is given and with 0.0 otherwise; a constructed
\* stage has depth blocks.
C21_OnlyFirstBlockStridesAndDownsamples ==
    /\ \A i \in 1..Len(blocks) :
           LET block == blocks[i]
               index == i - 1
           IN  /\ block.out_chs = out_chs
               /\ index = 0 =>
                      /\ block.stride = stride_arg
                      /\ block.in_chs = in_chs
                      /\ ShortcutIsDownsampled(block) <=> (in_chs # out_chs \/ stride_arg > 1)
               /\ index >= 1 =>
                      /\ block.stride = 1
                      /\ block.in_chs = out_chs
                      /\ block.downsample = "none"
                      /\ ~ShortcutIsDownsampled(block)
               /\ (block_dpr.given /\ index < Len(block_dpr.list)) =>
                      block.drop_path_rate = block_dpr.list[index + 1]
               /\ ~block_dpr.given => block.drop_path_rate = 0
               /\ (block.drop_path = "DropPath") <=> block.drop_path_rate > 0
    /\ stage_pc = "constructed" => Len(blocks) = depth

C21_Witness ==
    /\ stage_pc = "constructed"
    /\ depth = 2
    /\ in_chs # out_chs
    /\ stride_arg = 2
    /\ block_dpr = [given |-> TRUE, list |-> <<0, 10>>]
    /\ Len(blocks) = 2
    /\ blocks[1].downsample = "SubMConv2d"
    /\ blocks[1].stride = 2
    /\ blocks[2].downsample = "none"
    /\ blocks[2].stride = 1
    /\ blocks[2].drop_path = "DropPath"

----------------------------------------------------------------------------
\* training.py l.93: the four slice bounds of the crop, as written.
CropBounds(ys, xs, size) ==
    [r0 |-> CanvasCentre + ys - HalfWidth(size),
     r1 |-> CanvasCentre + ys + HalfWidth(size) + 1,
     c0 |-> CanvasCentre + xs - HalfWidth(size),
     c1 |-> CanvasCentre + xs + HalfWidth(size) + 1]

\* C22: for every event and every patch size up to the 11 of the search
\* window, the row and column ranges of the crop lie inside the 101x101
\* canvas: every slice bound is within 0..101, no start is negative, and so
\* no bound is clipped or wrapped by the slice.
C22_CropInsideCanvas ==
    (Peaked /\ EVT_SIZE <= SearchSize) =>
        LET b == CropBounds(y_shift, x_shift, EVT_SIZE)
        IN  /\ \A x \in {b.r0, b.r1, b.c0, b.c1} :
                   /\ 0 <= x
                   /\ x <= CanvasSize
                   /\ SliceBound(x, CanvasSize) = x
            /\ b.r0 < b.r1
            /\ b.c0 < b.c1
            /\ pc = "noise" =>
                   patch = [i \in 0..(b.r1 - b.r0 - 1) |->
                               [j \in 0..(b.c1 - b.c0 - 1) |->
                                   At(evt_arr, b.r0 + i, b.c0 + j)]]

C22_Witness ==
    /\ Cropped
    /\ EVT_SIZE = SearchSize
    /\ y_shift = 5
    /\ x_shift = 5
    /\ CropBounds(y_shift, x_shift, EVT_SIZE).r1 = 61
    /\ pc = "noise"
    /\ DOMAIN patch = 0..10

====
